---- MODULE Spec2Model ----
(***************************************************************************)
(* Heltec WiFi Kit 32 NTP clock (NTP_Clock_New2.ino): the time-acquisition *)
(* and resynchronisation state machine formed by setup(), initTime(),      *)
(* updateNtpTime() and loop().                                             *)
(*                                                                         *)
(* The sketch runs on one thread.  pc is the position of that thread; one  *)
(* action is one statement group of setup() or loop().  The variables of   *)
(* the sketch keep their names (bTimeReceived, start, refresh).  The       *)
(* collaborators are modelled by what the sketch can see of them: the      *)
(* status WiFi.status() reports, the TZ variable of the process            *)
(* environment, the system clock and the frame last sent to the OLED.      *)
(***************************************************************************)
EXTENDS Integers, Sequences, FiniteSets, TLC

\* refresh > 16200 in loop(): one hour of 200 ms passes.
Threshold == 16200

\* The run of consecutive failed passes is counted up to MaxFails.
MaxFails == 3

\* String tz: the rule handed to initTime and updateNtpTime.
tz == "EST5EDT,M3.2.0,M11.1.0"

\* The value configTime(0, 0, server) leaves in TZ.
UTC0 == "UTC0"

WL_IDLE_STATUS == "WL_IDLE_STATUS"
WL_CONNECTED == "WL_CONNECTED"
WL_DISCONNECTED == "WL_DISCONNECTED"

\* What WiFi.status() can answer while the station associates.
WlStatus == {WL_IDLE_STATUS, WL_CONNECTED, WL_DISCONNECTED}

VARIABLES
    pc,             \* position of the single thread
    bTimeReceived,  \* bool bTimeReceived
    start,          \* int start
    refresh,        \* static int refresh of loop()
    wifiStatus,     \* the last answer of WiFi.status()
    tzEnv,          \* the TZ variable of the process environment
    clock,          \* the system clock: "unset", "fresh" or "stale"
    frame,          \* the frame last sent to the OLED
    oledBuf,        \* the u8g2 buffer: "sent", or "cleared" and not yet sent
    \* ---- observation of the run (history; never read by the program) ----
    recvAtTop,      \* bTimeReceived at the top of the current pass of loop()
    acqCalls,       \* calls of updateNtpTime in the current pass
    lastAcq,        \* outcome of the acquisition of this pass: none, ok, fail
    delivered,      \* the time source delivered a value in that acquisition
    acqTrace,       \* the calls and assignments of that acquisition, in order
    forcedBy,       \* why the re-association block ran in this pass
    forcedPrev,     \* the re-association block ran in the previous pass
    acqAfterForce,  \* an acquisition was attempted after the block, same pass
    rendered,       \* a date/time frame was sent in this pass
    tickAtTop,      \* refresh at the top of the current pass
    failsBefore,    \* consecutive failed passes right before this pass
    dcount,         \* decisions since refresh was last 0 with bTimeReceived
    lastDecision,   \* the latest decision of the if at the resync check
    everSynced,     \* some initTime or updateNtpTime took its success path
    everForced      \* the re-association block has run at least once

progVars == <<pc, bTimeReceived, start, refresh>>
envVars == <<wifiStatus, tzEnv, clock, frame, oledBuf>>
passVars == <<recvAtTop, acqCalls, lastAcq, delivered, acqTrace, forcedBy, forcedPrev,
              acqAfterForce, rendered, tickAtTop, failsBefore>>
histVars == <<dcount, lastDecision, everSynced, everForced>>
vars == <<progVars, envVars, passVars, histVars>>

(***************************************************************************)
(* Pure parts.                                                             *)
(***************************************************************************)

\* getLocalTime(&timeinfo): polls the system clock until it reads a set
\* time or its wait is over; configTime does not clear the clock.
GetLocalTime(c) == c # "unset"

\* The system clock after one acquisition attempt in which the time source
\* did (d) or did not deliver a value.
ClockAfter(c, d) == IF d THEN "fresh" ELSE c

\* configTime(0, 0, server) resets TZ to zero offset; setTimezone(timezone)
\* is setenv("TZ", timezone, 1); tzset().
ConfigTime(env) == UTC0

SetTimezone(env, timezone) == timezone

\* A variant of the wait for association that stops on any answer.
Associated_Any(s) == TRUE

\* The wait for association goes on while WiFi.status() != WL_CONNECTED.
Associated(s) == s = WL_CONNECTED

\* A variant of sendBuffer that sends nothing.
SendBuffer_Skip(buf) == buf

\* u8g2.clearBuffer() and u8g2.sendBuffer().
ClearBuffer(buf) == "cleared"

SendBuffer(buf) == "sent"

\* A variant of the condition that tests start==1.
ResyncDue_StartSet(r, s) == r > Threshold \/ s = 1

\* A variant of the condition that lets refresh pass one further.
ResyncDue_Late(r, s) == r > Threshold + 1 \/ s = 0

\* A variant of the condition that compares with >= .
ResyncDue_Early(r, s) == r >= Threshold \/ s = 0

\* The condition of the resync check: refresh > 16200 || start==0.
ResyncDue(r, s) == r > Threshold \/ s = 0

\* Variants of the block with one of its three assignments left out.
ForcedStart_Keep(s) == s

ForcedReceived_Keep(b) == b

ForcedRefresh_Keep(r) == r

\* The statements of the block the condition guards:
\* start = 1; ... bTimeReceived = false; refresh = 0;
ForcedStart(s) == 1

ForcedReceived(b) == FALSE

ForcedRefresh(r) == 0

\* Variants of the conditions: the OLED update under the negated flag;
\* updateNtpTime never called.
RenderDue_Inverted(b) == ~b

NeedsUpdate_Never(b) == FALSE

\* Variants: the OLED update without its guard; a step of two.
RenderDue_Always(b) == TRUE

TickStep_Double(r) == r + 2

\* if (bTimeReceived) guards the OLED update, which begins refresh += 1.
RenderDue(b) == b

TickStep(r) == r + 1

Min(a, b) == IF a < b THEN a ELSE b

\* Which operand of the condition made it true.
ForcedReason(r, s) == IF r > Threshold THEN "tick" ELSE "start"

\* The count of decisions since refresh was last 0 with bTimeReceived true:
\* 0 in such a state, one more after each decision, -1 before the first.
Count(d, r, b, decided) ==
    IF r = 0 /\ b THEN 0
    ELSE IF decided /\ d >= 0 THEN d + 1
    ELSE d

(***************************************************************************)
(* Initial state: the globals as declared, setup() not yet entered.        *)
(***************************************************************************)
Init ==
    /\ pc = "setup"
    /\ bTimeReceived = FALSE
    /\ start = 0
    /\ refresh = 0
    /\ wifiStatus = WL_IDLE_STATUS
    /\ tzEnv = "unset"
    /\ clock = "unset"
    /\ frame = "none"
    /\ oledBuf = "sent"
    /\ recvAtTop = FALSE
    /\ acqCalls = 0
    /\ lastAcq = "none"
    /\ delivered = FALSE
    /\ acqTrace = <<>>
    /\ forcedBy = "none"
    /\ forcedPrev = FALSE
    /\ acqAfterForce = FALSE
    /\ rendered = FALSE
    /\ tickAtTop = 0
    /\ failsBefore = 0
    /\ dcount = -1
    /\ lastDecision = "-"
    /\ everSynced = FALSE
    /\ everForced = FALSE

(***************************************************************************)
(* The acquisition shared by initTime(timezone) and updateNtpTime(timezone)*)
(* : configTime(0,0,server); delay; getLocalTime; on failure               *)
(* bTimeReceived = false and return; otherwise setTimezone(timezone),      *)
(* start = 1, bTimeReceived = true.  d: the time source delivered.         *)
(***************************************************************************)
\* The calls and assignments of the two paths, in the order of the code.
OkTrace == <<"configTime", "getLocalTime", "setTimezone", "start=1",
             "bTimeReceived=true">>

FailTrace == <<"configTime", "getLocalTime", "bTimeReceived=false">>

\* Variants: a failure path that clears start; a success path that does
\* not set start; one that sets the timezone before configTime; one that
\* does not set the timezone.
AcquireFail_ClearStart(timezone, d) ==
    /\ bTimeReceived' = FALSE
    /\ start' = 0
    /\ tzEnv' = ConfigTime(tzEnv)
    /\ lastAcq' = "fail"
    /\ acqTrace' = FailTrace

AcquireOk_NoStart(timezone, d) ==
    /\ bTimeReceived' = TRUE
    /\ start' = start
    /\ tzEnv' = SetTimezone(ConfigTime(tzEnv), timezone)
    /\ lastAcq' = "ok"
    /\ acqTrace' = <<"configTime", "getLocalTime", "setTimezone",
                     "bTimeReceived=true">>

AcquireOk_TzFirst(timezone, d) ==
    /\ bTimeReceived' = TRUE
    /\ start' = 1
    /\ tzEnv' = ConfigTime(SetTimezone(tzEnv, timezone))
    /\ lastAcq' = "ok"
    /\ acqTrace' = <<"setTimezone", "configTime", "getLocalTime", "start=1",
                     "bTimeReceived=true">>

AcquireOk_NoTz(timezone, d) ==
    /\ bTimeReceived' = TRUE
    /\ start' = 1
    /\ tzEnv' = ConfigTime(tzEnv)
    /\ lastAcq' = "ok"
    /\ acqTrace' = <<"configTime", "getLocalTime", "start=1",
                     "bTimeReceived=true">>

AcquireFail(timezone, d) ==
    /\ bTimeReceived' = FALSE
    /\ start' = start
    /\ tzEnv' = ConfigTime(tzEnv)
    /\ lastAcq' = "fail"
    /\ acqTrace' = FailTrace

AcquireOk(timezone, d) ==
    /\ bTimeReceived' = TRUE
    /\ start' = 1
    /\ tzEnv' = SetTimezone(ConfigTime(tzEnv), timezone)
    /\ lastAcq' = "ok"
    /\ acqTrace' = OkTrace

Acquire(timezone, d) ==
    /\ clock' = ClockAfter(clock, d)
    /\ delivered' = d
    /\ IF GetLocalTime(ClockAfter(clock, d))
         THEN AcquireOk(timezone, d)
         ELSE AcquireFail(timezone, d)
    /\ everSynced' = (everSynced \/ GetLocalTime(ClockAfter(clock, d)))
    /\ acqAfterForce' = (acqAfterForce \/ forcedBy # "none")
    /\ UNCHANGED <<refresh, wifiStatus, frame, oledBuf>>

(***************************************************************************)
(* setup()                                                                 *)
(***************************************************************************)

\* Serial, LED, OLED start, the "Connecting to:" frame, WiFi.begin.
SetupBegin ==
    /\ pc = "setup"
    /\ pc' = "setupWifi"
    /\ frame' = "connecting"
    /\ oledBuf' = SendBuffer(ClearBuffer(oledBuf))
    /\ UNCHANGED <<bTimeReceived, start, refresh, wifiStatus, tzEnv, clock>>
    /\ UNCHANGED <<passVars, histVars>>

\* while (WiFi.status() != WL_CONNECTED) { delay(500); }
SetupWifiWait ==
    /\ pc = "setupWifi"
    /\ \E s \in WlStatus : ~Associated(s) /\ wifiStatus' = s
    /\ UNCHANGED <<progVars, tzEnv, clock, frame, oledBuf, passVars,
                   histVars>>

\* The loop ends; the "WiFi Stats / Awaiting NTP time..." frame; Udp.begin.
SetupWifiUp ==
    /\ pc = "setupWifi"
    /\ \E s \in WlStatus : Associated(s) /\ wifiStatus' = s
    /\ frame' = "awaiting"
    /\ oledBuf' = SendBuffer(ClearBuffer(oledBuf))
    /\ pc' = "initTime"
    /\ UNCHANGED <<bTimeReceived, start, refresh, tzEnv, clock>>
    /\ UNCHANGED <<passVars, histVars>>

\* initTime(tz), the last statement of setup().
InitTime ==
    /\ pc = "initTime"
    /\ \E d \in BOOLEAN : Acquire(tz, d)
    /\ pc' = "top"
    /\ dcount' = Count(dcount, refresh', bTimeReceived', FALSE)
    /\ UNCHANGED <<recvAtTop, acqCalls, forcedBy, forcedPrev, rendered,
                   tickAtTop, failsBefore, lastDecision, everForced>>

(***************************************************************************)
(* loop()                                                                  *)
(***************************************************************************)

\* if (bTimeReceived == false) { updateNtpTime(tz); }
UpdateNtpTime ==
    /\ \E d \in BOOLEAN : Acquire(tz, d)
    /\ acqCalls' = acqCalls + 1

SkipUpdate ==
    /\ lastAcq' = "none"
    /\ delivered' = FALSE
    /\ acqTrace' = <<>>
    /\ UNCHANGED <<bTimeReceived, start, refresh, envVars, acqCalls,
                   acqAfterForce, everSynced>>

\* A variant that calls updateNtpTime in every pass.
NeedsUpdate_Always(b) == TRUE

NeedsUpdate(b) == b = FALSE

LoopAcquire ==
    /\ pc = "top"
    /\ recvAtTop' = bTimeReceived
    /\ tickAtTop' = refresh
    /\ IF NeedsUpdate(bTimeReceived) THEN UpdateNtpTime ELSE SkipUpdate
    /\ pc' = "check"
    /\ dcount' = Count(dcount, refresh', bTimeReceived', FALSE)
    /\ UNCHANGED <<forcedBy, forcedPrev, rendered, failsBefore, lastDecision,
                   everForced>>

\* if (refresh > 16200 || start==0) is false: the block is skipped.
LoopNoResync ==
    /\ pc = "check"
    /\ ~ResyncDue(refresh, start)
    /\ pc' = "render"
    /\ lastDecision' = "None"
    /\ dcount' = Count(dcount, refresh, bTimeReceived, TRUE)
    /\ UNCHANGED <<bTimeReceived, start, refresh, envVars, passVars,
                   everSynced, everForced>>

\* The condition is true: start = 1; WiFi.begin(chSSID, chPassword);
LoopResyncBegin ==
    /\ pc = "check"
    /\ ResyncDue(refresh, start)
    /\ start' = ForcedStart(start)
    /\ pc' = "loopWifi"
    /\ forcedBy' = ForcedReason(refresh, start)
    /\ lastDecision' = "ReassociateAndResync"
    /\ everForced' = TRUE
    /\ dcount' = Count(dcount, refresh, bTimeReceived, TRUE)
    /\ UNCHANGED <<bTimeReceived, refresh, envVars, recvAtTop, acqCalls,
                   lastAcq, delivered, acqTrace, forcedPrev, acqAfterForce,
                   rendered, tickAtTop, failsBefore, everSynced>>

\* while (WiFi.status() != WL_CONNECTED) { delay(500); }
LoopWifiWait ==
    /\ pc = "loopWifi"
    /\ \E s \in WlStatus : ~Associated(s) /\ wifiStatus' = s
    /\ UNCHANGED <<progVars, tzEnv, clock, frame, oledBuf, passVars,
                   histVars>>

\* The loop ends; bTimeReceived = false; refresh = 0;  The value the clock
\* holds now dates from before this invalidation.
LoopResyncEnd ==
    /\ pc = "loopWifi"
    /\ \E s \in WlStatus : Associated(s) /\ wifiStatus' = s
    /\ bTimeReceived' = ForcedReceived(bTimeReceived)
    /\ refresh' = ForcedRefresh(refresh)
    /\ clock' = IF clock = "fresh" THEN "stale" ELSE clock
    /\ pc' = "render"
    /\ dcount' = Count(dcount, refresh', bTimeReceived', FALSE)
    /\ UNCHANGED <<start, tzEnv, frame, oledBuf, passVars, lastDecision,
                   everSynced, everForced>>

\* if (bTimeReceived) { refresh += 1; ... u8g2.clearBuffer();
LoopRender ==
    /\ pc = "render"
    /\ IF RenderDue(bTimeReceived)
         THEN /\ refresh' = TickStep(refresh)
              /\ oledBuf' = ClearBuffer(oledBuf)
              /\ pc' = "draw"
         ELSE /\ UNCHANGED <<refresh, oledBuf>>
              /\ pc' = "delay"
    /\ dcount' = Count(dcount, refresh', bTimeReceived, FALSE)
    /\ UNCHANGED <<bTimeReceived, start, wifiStatus, tzEnv, clock, frame,
                   passVars, lastDecision, everSynced, everForced>>

\* localtime, strftime and drawStr of the date and the time;
\* u8g2.sendBuffer(); }
LoopFlush ==
    /\ pc = "draw"
    /\ oledBuf' = SendBuffer(oledBuf)
    /\ frame' = IF SendBuffer(oledBuf) = "sent" THEN "clock" ELSE frame
    /\ rendered' = (SendBuffer(oledBuf) = "sent")
    /\ pc' = "delay"
    /\ UNCHANGED <<bTimeReceived, start, refresh, wifiStatus, tzEnv, clock,
                   recvAtTop, acqCalls, lastAcq, delivered, acqTrace,
                   forcedBy, forcedPrev, acqAfterForce, tickAtTop,
                   failsBefore, histVars>>

\* delay(200); loop() returns and is entered again.
LoopDelay ==
    /\ pc = "delay"
    /\ pc' = "top"
    /\ forcedPrev' = (forcedBy # "none")
    /\ forcedBy' = "none"
    /\ acqCalls' = 0
    /\ lastAcq' = "none"
    /\ delivered' = FALSE
    /\ acqTrace' = <<>>
    /\ acqAfterForce' = FALSE
    /\ rendered' = FALSE
    /\ failsBefore' = IF lastAcq = "fail" THEN Min(failsBefore + 1, MaxFails)
                                         ELSE 0
    /\ UNCHANGED <<bTimeReceived, start, refresh, envVars, recvAtTop,
                   tickAtTop, histVars>>

Next ==
    \/ SetupBegin
    \/ SetupWifiWait
    \/ SetupWifiUp
    \/ InitTime
    \/ LoopAcquire
    \/ LoopNoResync
    \/ LoopResyncBegin
    \/ LoopWifiWait
    \/ LoopResyncEnd
    \/ LoopRender
    \/ LoopFlush
    \/ LoopDelay

Spec == Init /\ [][Next]_vars

(***************************************************************************)
(* Liveness.  The single thread keeps running: every statement group but   *)
(* the body of a wait loop is taken when it is the next one, so a wait for *)
(* association ends (WiFi.status() reports WL_CONNECTED in the end).  The  *)
(* time source does not stay silent for ever: an updateNtpTime that can    *)
(* succeed again and again does succeed.                                   *)
(***************************************************************************)
Progress ==
    \/ SetupBegin
    \/ SetupWifiUp
    \/ InitTime
    \/ LoopAcquire
    \/ LoopNoResync
    \/ LoopResyncBegin
    \/ LoopResyncEnd
    \/ LoopRender
    \/ LoopFlush
    \/ LoopDelay

AcquireSucceeds == LoopAcquire /\ lastAcq' = "ok"

LiveSpec == Spec /\ WF_vars(Progress) /\ SF_vars(AcquireSucceeds)

TypeOK ==
    /\ pc \in {"setup", "setupWifi", "initTime", "top", "check", "loopWifi",
               "render", "draw", "delay"}
    /\ bTimeReceived \in BOOLEAN
    /\ start \in {0, 1}
    /\ refresh \in 0..(Threshold + 1)
    /\ wifiStatus \in WlStatus
    /\ tzEnv \in {"unset", UTC0, tz}
    /\ clock \in {"unset", "fresh", "stale"}
    /\ frame \in {"none", "connecting", "awaiting", "clock"}

InPass == pc \in {"check", "loopWifi", "render", "draw", "delay"}

(***************************************************************************)
(* C1  Resync threshold.  Counting the decisions of the resync check made  *)
(* since refresh was last 0 with bTimeReceived true, the decisions number 1*)
(* to Threshold are None and decision number Threshold + 1 is              *)
(* ReassociateAndResync, whose block leaves bTimeReceived false and        *)
(* refresh 0.                                                              *)
(***************************************************************************)
ResyncThreshold ==
    /\ dcount \in 1..Threshold => lastDecision = "None"
    /\ dcount = Threshold + 1 =>
          /\ lastDecision = "ReassociateAndResync"
          /\ pc \in {"render", "delay", "top"} =>
                ~bTimeReceived /\ refresh = 0

ResyncThresholdWitness ==
    /\ dcount = Threshold + 1
    /\ pc = "render"
    /\ forcedBy = "tick"

(***************************************************************************)
(* C2  As stated: start is 1 only once an acquisition has succeeded; the   *)
(* passes that fail from power-up end with start 0, the pass that succeeds *)
(* ends with start 1.                                                      *)
(***************************************************************************)
StartedOnlyAfterSuccess ==
    /\ start = 1 => everSynced
    /\ (pc = "delay" /\ lastAcq = "fail" /\ ~everSynced) => start = 0
    /\ (pc = "delay" /\ lastAcq = "ok") => start = 1

(***************************************************************************)
(* C2  As amended: start is 1 only once an acquisition has succeeded or    *)
(* the re-association block has run; every pass of loop(), the failing     *)
(* ones from power-up included, ends with start 1.                         *)
(***************************************************************************)
StartedAfterSuccessOrForce ==
    /\ start = 1 => (everSynced \/ everForced)
    /\ pc = "delay" => start = 1
    /\ (start = 0 /\ pc \notin {"setup", "setupWifi", "initTime"}) =>
          (~everSynced /\ ~everForced /\ pc \in {"top", "check"})

StartedAfterForceWitness ==
    /\ pc = "delay"
    /\ lastAcq = "fail"
    /\ failsBefore = 2
    /\ start = 1
    /\ ~everSynced

(***************************************************************************)
(* C3  As stated: the re-association block is never entered because start  *)
(* is 0, only because refresh exceeded the threshold.                      *)
(***************************************************************************)
StartTriggerUnreachable ==
    forcedBy # "none" => (forcedBy = "tick" /\ recvAtTop)

(***************************************************************************)
(* C3  As amended: the block is entered because start is 0 only in a pass  *)
(* whose updateNtpTime failed when no acquisition had succeeded before and *)
(* the block had not run before (bTimeReceived false at the decision);     *)
(* every other entry is because refresh exceeded the threshold, with       *)
(* bTimeReceived true at the decision.                                     *)
(***************************************************************************)
StartTriggerOnlyUnsynced ==
    /\ (pc = "loopWifi" /\ forcedBy = "start") =>
          /\ ~bTimeReceived
          /\ ~everSynced
          /\ lastAcq = "fail"
          /\ failsBefore = 0
          /\ refresh = 0
    /\ (pc = "loopWifi" /\ forcedBy = "tick") =>
          /\ bTimeReceived
          /\ refresh = Threshold + 1
    /\ pc = "loopWifi" => forcedBy # "none"

StartTriggerWitness ==
    /\ pc = "loopWifi"
    /\ forcedBy = "start"
    /\ wifiStatus = WL_DISCONNECTED

(***************************************************************************)
(* C4  Every step in which initTime or updateNtpTime takes its success     *)
(* path ends with bTimeReceived true, start 1 and refresh 0.               *)
(***************************************************************************)
AcquireStep == pc \in {"initTime", "top"} /\ lastAcq' # "none"

SuccessPostcondition ==
    [][(AcquireStep /\ lastAcq' = "ok") =>
          (bTimeReceived' /\ start' = 1 /\ refresh' = 0)]_vars

SuccessWitness ==
    /\ pc = "check"
    /\ lastAcq = "ok"
    /\ forcedPrev
    /\ clock = "fresh"
    /\ everSynced

(***************************************************************************)
(* C5  Every step in which initTime or updateNtpTime takes its failure     *)
(* path ends with bTimeReceived false and leaves start and refresh as they *)
(* were.                                                                   *)
(***************************************************************************)
FailurePostcondition ==
    [][(AcquireStep /\ lastAcq' = "fail") =>
          (~bTimeReceived' /\ start' = start /\ refresh' = refresh)]_vars

FailureWitness ==
    /\ pc = "check"
    /\ lastAcq = "fail"
    /\ start = 1
    /\ failsBefore = 1

(***************************************************************************)
(* C6  Freshness, as stated: while bTimeReceived is true the system clock  *)
(* holds a value the time source delivered since the latest invalidation,  *)
(* and an acquisition in which the time source delivered nothing does not  *)
(* set bTimeReceived.                                                      *)
(***************************************************************************)
Freshness ==
    /\ bTimeReceived => clock = "fresh"
    /\ (InPass /\ lastAcq # "none" /\ ~delivered) => lastAcq = "fail"

(***************************************************************************)
(* C7  Retry until success.  A pass whose updateNtpTime failed keeps       *)
(* bTimeReceived false and refresh at its value of the top of the pass, up *)
(* to its end; the pass whose updateNtpTime succeeds ends with             *)
(* bTimeReceived true; a pass that follows a failed one calls              *)
(* updateNtpTime again.                                                    *)
(***************************************************************************)
RetryUntilSuccess ==
    /\ (InPass /\ lastAcq = "fail") =>
          (~bTimeReceived /\ refresh = tickAtTop)
    /\ (pc = "delay" /\ lastAcq = "ok") => bTimeReceived
    /\ (InPass /\ failsBefore > 0) => (acqCalls = 1 /\ ~recvAtTop)

RetryWitness ==
    /\ pc = "delay"
    /\ lastAcq = "ok"
    /\ failsBefore = 2
    /\ bTimeReceived

(***************************************************************************)
(* C8  Tick monotonicity.  In every step refresh goes up by exactly 1, is  *)
(* reset to 0 or stays; it goes up only in the OLED update, with           *)
(* bTimeReceived true.                                                     *)
(***************************************************************************)
TickMonotone ==
    [][/\ refresh' \in {refresh + 1, 0, refresh}
       /\ refresh' > refresh => (bTimeReceived /\ pc = "render")]_vars

TickWitness ==
    /\ pc = "delay"
    /\ rendered
    /\ refresh = tickAtTop + 1
    /\ refresh = 2
    /\ everForced

(***************************************************************************)
(* C9  Acquisition gating.  In every pass updateNtpTime is called exactly  *)
(* once when bTimeReceived was false at the top and not at all when it was *)
(* true.                                                                   *)
(***************************************************************************)
AcquisitionGating ==
    InPass => acqCalls = (IF recvAtTop THEN 0 ELSE 1)

GatingWitness ==
    /\ pc = "delay"
    /\ recvAtTop
    /\ acqCalls = 0
    /\ rendered
    /\ everForced

(***************************************************************************)
(* C10  A forced resync only invalidates.  In the pass where the block     *)
(* runs no acquisition follows it and no frame is sent; the next pass      *)
(* calls updateNtpTime, and when that succeeds the same pass sends a frame *)
(* and does not run the block.                                             *)
(***************************************************************************)
ForcedOnlyInvalidates ==
    /\ forcedBy # "none" => (~rendered /\ ~acqAfterForce)
    /\ (forcedBy # "none" /\ pc \in {"render", "delay"}) => ~bTimeReceived
    /\ (forcedPrev /\ InPass) => acqCalls = 1
    /\ (forcedPrev /\ pc = "delay" /\ lastAcq = "ok") =>
          (rendered /\ forcedBy = "none")

ForcedWitness ==
    /\ forcedPrev
    /\ pc = "delay"
    /\ lastAcq = "ok"
    /\ rendered
    /\ clock = "stale"

\* a comes before b in seq; the number of times e is in seq.
Before(seq, a, b) ==
    \E i, j \in 1..Len(seq) : i < j /\ seq[i] = a /\ seq[j] = b

Occurrences(seq, e) == Cardinality({i \in 1..Len(seq) : seq[i] = e})

(***************************************************************************)
(* C11  Forced-resync postcondition.  Once the re-association block has    *)
(* completed, WiFi.status() has answered WL_CONNECTED, bTimeReceived is    *)
(* false and refresh is 0.                                                 *)
(***************************************************************************)
ForcedPostcondition ==
    (forcedBy # "none" /\ pc \in {"render", "delay"}) =>
        (wifiStatus = WL_CONNECTED /\ ~bTimeReceived /\ refresh = 0)

ForcedPostWitness ==
    /\ forcedBy = "tick"
    /\ pc = "delay"
    /\ wifiStatus = WL_CONNECTED
    /\ tickAtTop = Threshold + 1

(***************************************************************************)
(* C12  Commit ordering.  A successful acquisition calls configTime, then  *)
(* reads the time, then applies the timezone rule exactly once, and only   *)
(* then sets bTimeReceived; TZ then holds the rule.  A failed acquisition  *)
(* never applies the rule and leaves TZ at zero offset.                    *)
(***************************************************************************)
CommitOrdering ==
    /\ lastAcq = "ok" =>
          /\ Before(acqTrace, "configTime", "getLocalTime")
          /\ Before(acqTrace, "getLocalTime", "setTimezone")
          /\ Before(acqTrace, "setTimezone", "bTimeReceived=true")
          /\ Occurrences(acqTrace, "setTimezone") = 1
          /\ tzEnv = tz
    /\ lastAcq = "fail" =>
          /\ Occurrences(acqTrace, "setTimezone") = 0
          /\ tzEnv = UTC0

CommitWitness ==
    /\ lastAcq = "ok"
    /\ pc = "check"
    /\ delivered
    /\ failsBefore = 1
    /\ tzEnv = tz

(***************************************************************************)
(* C13  As stated: while bTimeReceived is false the frame last sent to the *)
(* display is not a date/time frame.                                       *)
(***************************************************************************)
UnsyncedShowsNoClock ==
    ~bTimeReceived => frame # "clock"

(***************************************************************************)
(* C13  As amended: until the first successful acquisition the display     *)
(* shows the connecting or awaiting screen and no clock digits; when       *)
(* bTimeReceived is false after that, a forced resync has cleared it and   *)
(* the date/time frame sent last stays on the display.                     *)
(***************************************************************************)
NeverSyncedShowsNoClock ==
    /\ ~everSynced => frame \in {"none", "connecting", "awaiting"}
    /\ (~everSynced /\ pc \notin {"setup", "setupWifi"}) => frame = "awaiting"
    /\ (~bTimeReceived /\ frame = "clock") =>
          (everSynced /\ everForced /\ refresh = 0)

NeverSyncedWitness ==
    /\ ~everSynced
    /\ ~bTimeReceived
    /\ pc = "delay"
    /\ failsBefore = 1
    /\ frame = "awaiting"

(***************************************************************************)
(* C14  Eventual synchronisation.  When waits for association end and the  *)
(* acquisitions do not fail for ever, every state with bTimeReceived false *)
(* is followed by one with bTimeReceived true and a frame sent in that     *)
(* pass.                                                                   *)
(***************************************************************************)
EventualSync ==
    (~bTimeReceived) ~> (bTimeReceived /\ rendered)

EventualSyncWitness ==
    /\ bTimeReceived
    /\ rendered
    /\ failsBefore = 2
    /\ lastAcq = "ok"

(***************************************************************************)
(* C15  bTimeReceived true implies start 1 in every state; the success     *)
(* path assigns start before bTimeReceived.                                *)
(***************************************************************************)
ReceivedImpliesStarted ==
    /\ bTimeReceived => start = 1
    /\ lastAcq = "ok" => Before(acqTrace, "start=1", "bTimeReceived=true")

ReceivedStartedWitness ==
    /\ bTimeReceived
    /\ start = 1
    /\ pc = "top"
    /\ lastAcq = "ok"

(***************************************************************************)
(* C16  Atomic render.  The buffer is cleared and not yet sent only        *)
(* between clearBuffer and sendBuffer of the OLED update; the step that    *)
(* follows the clear is the send, in the same pass, and changes neither    *)
(* bTimeReceived nor start, calls no acquisition and runs no               *)
(* re-association.                                                         *)
(***************************************************************************)
AtomicRender ==
    [][/\ oledBuf' = "cleared" => pc' = "draw"
       /\ pc = "draw" =>
             /\ pc' = "delay"
             /\ oledBuf' = "sent"
             /\ bTimeReceived' = bTimeReceived
             /\ start' = start
             /\ acqCalls' = acqCalls
             /\ forcedBy' = forcedBy
             /\ wifiStatus' = wifiStatus]_vars

AtomicRenderWitness ==
    /\ pc = "draw"
    /\ oledBuf = "cleared"
    /\ refresh = 3

(***************************************************************************)
(* C17  At the top of a pass and where initTime is called, bTimeReceived   *)
(* false implies refresh 0; every pass that calls updateNtpTime began with *)
(* refresh 0.                                                              *)
(***************************************************************************)
TickZeroWhileUnreceived ==
    /\ (pc \in {"initTime", "top"} /\ ~bTimeReceived) => refresh = 0
    /\ (InPass /\ acqCalls = 1) => tickAtTop = 0

TickZeroWitness ==
    /\ pc = "top"
    /\ ~bTimeReceived
    /\ forcedPrev
    /\ dcount = Threshold + 1

(***************************************************************************)
(* C18  The tick counter is bounded: 0 <= refresh <= Threshold + 1.        *)
(***************************************************************************)
TickBounded ==
    0 <= refresh /\ refresh <= Threshold + 1

TickBoundWitness ==
    /\ refresh = Threshold + 1
    /\ pc = "check"

(***************************************************************************)
(* C19  A pass whose updateNtpTime succeeds does not enter the             *)
(* re-association block and sends a frame, with refresh going from 0 to 1. *)
(***************************************************************************)
SuccessNotInvalidated ==
    /\ (InPass /\ lastAcq = "ok") => (forcedBy = "none" /\ tickAtTop = 0)
    /\ (pc = "delay" /\ lastAcq = "ok") =>
          (rendered /\ refresh = 1 /\ frame = "clock" /\ bTimeReceived)

SuccessPassWitness ==
    /\ pc = "delay"
    /\ lastAcq = "ok"
    /\ rendered
    /\ refresh = 1
    /\ forcedPrev
    /\ clock = "fresh"

(***************************************************************************)
(* C20  Whenever bTimeReceived is true, and so whenever the OLED update    *)
(* formats the time, TZ holds the rule and not the zero offset that        *)
(* configTime left, also after acquisitions that failed.                   *)
(***************************************************************************)
RenderUnderRule ==
    /\ bTimeReceived => tzEnv = tz
    /\ pc = "draw" => tzEnv = tz

RenderRuleWitness ==
    /\ pc = "draw"
    /\ tzEnv = tz
    /\ failsBefore = 2
====
